---------------------------- MODULE Spec2Model ----------------------------
(***************************************************************************)
(* A model of the two page components of the video-resume wizard:          *)
(*   src/src/pages/Dashboard.tsx  (plan-gated "new submission" action,     *)
(*                                 plan fetch + realtime plan channel,     *)
(*                                 submission rows)                        *)
(*   src/src/pages/Step3.tsx      (script generation, local storage)       *)
(*                                                                         *)
(* JavaScript values are encoded as strings: the booleans, null and        *)
(* undefined are the tagged strings JsTrue, JsFalse, JsNull, JsUndefined;  *)
(* every other string is a JavaScript string.                              *)
(***************************************************************************)
EXTENDS Integers, Sequences, FiniteSets, Bags, TLC

\* ------------------------------------------------------------------ bounds

\* The clock runs over the instants 0..MaxNow.
MaxNow == 1
\* Backend tables hold up to MaxRecorded submissions with status 'recorded'.
MaxRecorded == 3
\* Requests of one kind that may be in flight at once.
MaxInFlight == 1
\* Change notifications that may be queued on the realtime socket.
MaxQueue == 1
\* Channel objects the realtime client can hold (more than one is a leak).
MaxChannels == 2
\* Calls of the generate-intro function that may be pending at once.
MaxRequests == 2
\* The characters the longest prompt inputs have beyond buildPrompt's limits.
MaxExcess == 2
\* --------------------------------------------------------- JavaScript values

JsTrue == "<true>"
JsFalse == "<false>"
JsNull == "<null>"
JsUndefined == "<undefined>"

\* ToBoolean of the values the model uses (no numbers occur as values).
Truthy(v) == v \notin {JsFalse, JsNull, JsUndefined, ""}

\* a && b: the first operand when it is falsy, else the second.
JsAnd(a, b) == IF Truthy(a) THEN b ELSE a

\* a || b: the first operand when it is truthy, else the second.
JsOr(a, b) == IF Truthy(a) THEN a ELSE b

\* a === b and a > b as JavaScript booleans.
JsBool(p) == IF p THEN JsTrue ELSE JsFalse

\* A nullable array: `present` is FALSE for null/undefined.
NullArray == [present |-> FALSE, items |-> <<>>]
Array(items) == [present |-> TRUE, items |-> items]

\* ------------------------------------------------------------------- dates

\* Timestamp strings; the i-th denotes the instant i-1.
Stamps == <<"2026-01-01", "2026-01-02", "2026-01-03", "2026-01-04", "2026-01-05">>
StampOf(i) == Stamps[i + 1]
ValidStamps == {StampOf(i) : i \in 0..MaxNow}

\* new Date(s).getTime(): the instant of a timestamp string; NaN otherwise.
IsNaNDate(s) == s \notin ValidStamps
DateParse(s) == CHOOSE i \in 0..MaxNow : StampOf(i) = s

\* new Date(s) > new Date(): false when the date is invalid (NaN).
DateAfterNow(s, t) == JsBool(~IsNaNDate(s) /\ DateParse(s) > t)


\* ------------------------------------------------------------ backend data

\* The authenticated users; NoUser is useAuth()'s null user.
Users == {"u1"}
NoUser == JsNull

\* A profiles row as selected by fetchPlan / carried by payload.new.
PlanRecord(tier, status, renews) ==
    [plan_tier |-> tier, plan_status |-> status, plan_renews_at |-> renews]

\* Every combination of present, other, missing and empty plan fields.
PlanTiers == {"premium", "free", JsNull}
PlanStatuses == {"active", "canceled", JsNull}
PlanRenewals == ValidStamps \cup {JsNull, JsUndefined, "", "not a date"}
PlanRecords ==
    {PlanRecord(t, s, r) : t \in PlanTiers, s \in PlanStatuses, r \in PlanRenewals}

\* The plan records the Dashboard machine moves between.
PlanSamples ==
    {PlanRecord("free", JsNull, JsNull),
     PlanRecord("premium", "active", StampOf(1)),
     PlanRecord("premium", "active", JsNull)}

\* A job_requests row joined with its recordings.
CastRow(id, status, resume, recs) ==
    [id |-> id, status |-> status, resume_path |-> resume, recordings |-> recs]
Recording(path) == [storage_path |-> path]

RecordedRow(i) ==
    CastRow(i, "recorded", "resume.pdf", Array(<<Recording("video.webm")>>))
DraftRow(i) == CastRow(i, "draft", JsNull, Array(<<>>))

\* A user's job_requests table: nr recorded submissions, then nd drafts.
CastTable(nr, nd) ==
    [i \in 1..(nr + nd) |-> IF i <= nr THEN RecordedRow(i) ELSE DraftRow(i)]
CastTables == {CastTable(nr, nd) : nr \in 0..MaxRecorded, nd \in 0..1}

\* Rows of every shape the row rendering distinguishes.
RowPaths == {JsNull, "", "file"}
RowRecordings ==
    {NullArray, Array(<<>>)}
      \cup {Array(<<Recording(a)>>) : a \in RowPaths \cup {JsUndefined}}
      \cup {Array(<<Recording(a), Recording(b)>>) : a \in RowPaths, b \in RowPaths}
RowStatuses == {"draft", "ready", "recorded"}
AllRows(i) ==
    {CastRow(i, st, rp, rec) : st \in RowStatuses, rp \in RowPaths, rec \in RowRecordings}

\* ------------------------------------------------------------------ routes

\* A location is the tuple of its path segments.
DashboardRoute == <<"/dashboard">>
Step1Route == <<"/step1">>
BillingRoute == <<"/billing">>
HomeRoute == <<"/">>
RecordRoute(id) == <<"/record/", id>>
FinalResultRoute(id) == <<"/final-result/", id>>

\* ---------------------------------------------------------- Dashboard state

VARIABLES
    user,               \* useAuth().user: a user id or NoUser
    mounted,            \* whether the Dashboard component is mounted
    route,              \* the router's current location
    careerCasts,        \* useState<any[]>([])
    loading,            \* useState(true)
    showPricingPopup,   \* useState(false)
    isPremiumActive,    \* useState(false); holds whatever value is set
    planRenewsAt,       \* useState<string | null>(null)
    channel,            \* the plan effect's `const channel` (0: none)
    channels,           \* the realtime client's channels
    notifications,      \* change notifications queued for delivery
    planFetches,        \* fetchPlan calls awaiting their response
    castFetches,        \* fetchCareerCasts calls awaiting their response
    profiles,           \* backend: profiles row of every user
    jobRequests,        \* backend: job_requests rows of every user
    now,                \* the clock read by `new Date()`
    lastEvent           \* the handler that ran last (history)

\* lastEvent after a step that is no click of the user.
NoEvent == <<"none">>

dashVars ==
    <<user, mounted, route, careerCasts, loading, showPricingPopup,
      isPremiumActive, planRenewsAt, channel, channels, notifications,
      planFetches, castFetches, profiles, jobRequests, now, lastEvent>>

\* -------------------------------------------------------------- Step 3 state

VARIABLES
    s3Mounted,          \* whether the Step3 component is mounted
    teleprompterText,   \* useState("")
    isGenerating,       \* useState(false)
    isRewriting,        \* useState(false)
    error,              \* useState<string | null>(null)
    teleprompterSpeed,  \* useState(1), in tenths
    localStorage,       \* window.localStorage: key -> string or NullStr
    requests,           \* calls of the generate-intro function awaiting their answer
    invocations,        \* calls of generate-intro made by the last generateIntroduction
    genStart,           \* field and stored script when the pending generation began
    toast               \* the notification showToast showed last

step3Vars ==
    <<s3Mounted, teleprompterText, isGenerating, isRewriting, error,
      teleprompterSpeed, localStorage, requests, invocations, genStart, toast>>

\* The Dashboard's own variables (the location and the history are shared).
dashOnlyVars ==
    <<user, mounted, careerCasts, loading, showPricingPopup, isPremiumActive,
      planRenewsAt, channel, channels, notifications, planFetches, castFetches,
      profiles, jobRequests, now>>

vars == <<dashVars, step3Vars>>


\* -------------------------------------------------------- premium-active flag

\* The response of a request that has none yet.
NoPlan == PlanRecord(JsUndefined, JsUndefined, JsUndefined)

\* fetchPlan's `active`:
\*   data.plan_tier === 'premium' && data.plan_status === 'active' &&
\*   data.plan_renews_at && new Date(data.plan_renews_at) > new Date()
FetchPlanActive(data, t) ==
    JsAnd(JsAnd(JsAnd(JsBool(data.plan_tier = "premium"),
                      JsBool(data.plan_status = "active")),
                data.plan_renews_at),
          DateAfterNow(data.plan_renews_at, t))

\* The channel callback's `active`, computed from payload.new.
CallbackActive(new, t) ==
    JsAnd(JsAnd(JsAnd(JsBool(new.plan_tier = "premium"),
                      JsBool(new.plan_status = "active")),
                new.plan_renews_at),
          DateAfterNow(new.plan_renews_at, t))

\* ------------------------------------------------------------ plan effect

ChannelIds(chs) == {c.id : c \in chs}

\* The channel object supabase.channel(...) creates: the first unused id.
FreshChannel(chs) ==
    CHOOSE i \in 1..MaxChannels :
        /\ i \notin ChannelIds(chs)
        /\ \A j \in 1..(i - 1) : j \in ChannelIds(chs)

\* supabase.removeChannel(ch).
RemoveChannel(chs, ch) == {c \in chs : c.id # ch}

\* The notifications still to be delivered once channel ch is removed.
DropNotifications(q, ch) == SelectSeq(q, LAMBDA n : n.chan # ch)

PlanRequest(u) == [uid |-> u, status |-> "pending", data |-> NoPlan]
CastsRequest(u) == [uid |-> u]

\* The plan effect's body for user u: nothing without a user; else fetchPlan()
\* is called and the 'plan-updates' channel is created and subscribed.
PlanEffect(u, chs, fetches) ==
    IF u = NoUser
    THEN [channel |-> 0, channels |-> chs, planFetches |-> fetches]
    ELSE [channel |-> FreshChannel(chs),
          channels |-> chs \cup {[id |-> FreshChannel(chs), uid |-> u, joined |-> FALSE]},
          planFetches |-> fetches (+) SetToBag({PlanRequest(u)})]

\* A cleanup that forgets to remove the channel.
PlanEffectCleanupLeak(chs, ch) == chs

\* The plan effect's cleanup: the channel the effect created is removed.
PlanEffectCleanup(chs, ch) == IF ch = 0 THEN chs ELSE RemoveChannel(chs, ch)

\* The submissions effect's body: fetchCareerCasts() when there is a user.
CastsEffect(u, fetches, ld) ==
    IF u = NoUser
    THEN [castFetches |-> fetches, loading |-> ld]
    ELSE [castFetches |-> fetches (+) SetToBag({CastsRequest(u)}), loading |-> TRUE]

\* Whether the effects for user u can run within the model's bounds.
EffectsFit(u, chs, pf, cf) ==
    u # NoUser =>
        /\ Cardinality(chs) < MaxChannels
        /\ BagCardinality(pf) < MaxInFlight
        /\ BagCardinality(cf) < MaxInFlight

\* ------------------------------------------------------- Dashboard actions

\* The component is mounted: state is initialised and both effects run.
Mount ==
    /\ ~mounted
    /\ EffectsFit(user, channels, EmptyBag, EmptyBag)
    /\ LET pe == PlanEffect(user, channels, EmptyBag)
           ce == CastsEffect(user, EmptyBag, TRUE)
       IN /\ channel' = pe.channel
          /\ channels' = pe.channels
          /\ planFetches' = pe.planFetches
          /\ castFetches' = ce.castFetches
          /\ loading' = ce.loading
    /\ mounted' = TRUE
    /\ route' = DashboardRoute
    /\ careerCasts' = <<>>
    /\ showPricingPopup' = FALSE
    /\ isPremiumActive' = JsFalse
    /\ planRenewsAt' = JsNull
    /\ lastEvent' = NoEvent
    /\ UNCHANGED step3Vars
    /\ UNCHANGED <<user, notifications, profiles, jobRequests, now>>

\* navigate(path): the router leaves the Dashboard, which unmounts; the plan
\* effect's cleanup runs and the instance's state and pending calls are gone.
Navigate(path) ==
    /\ route' = path
    /\ mounted' = FALSE
    /\ channels' = PlanEffectCleanup(channels, channel)
    /\ notifications' = DropNotifications(notifications, channel)
    /\ channel' = 0
    /\ planFetches' = EmptyBag
    /\ castFetches' = EmptyBag
    /\ careerCasts' = <<>>
    /\ loading' = TRUE
    /\ showPricingPopup' = FALSE
    /\ isPremiumActive' = JsFalse
    /\ planRenewsAt' = JsNull

\* useAuth() yields another user: a mounted Dashboard re-runs the [user]
\* effects, the plan effect's cleanup first.
AuthChange(u) ==
    /\ u # user
    /\ user' = u
    /\ IF mounted
       THEN /\ EffectsFit(u, PlanEffectCleanup(channels, channel), planFetches, castFetches)
            /\ LET pe == PlanEffect(u, PlanEffectCleanup(channels, channel), planFetches)
                   ce == CastsEffect(u, castFetches, loading)
               IN /\ channel' = pe.channel
                  /\ channels' = pe.channels
                  /\ planFetches' = pe.planFetches
                  /\ castFetches' = ce.castFetches
                  /\ loading' = ce.loading
            /\ notifications' = DropNotifications(notifications, channel)
       ELSE UNCHANGED <<channel, channels, planFetches, castFetches, loading, notifications>>
    /\ lastEvent' = NoEvent
    /\ UNCHANGED step3Vars
    /\ UNCHANGED <<mounted, route, careerCasts, showPricingPopup, isPremiumActive, planRenewsAt, profiles, jobRequests, now>>


\* A bag with one copy of request req replaced by req2 / taken out.
Replace(bag, req, req2) == (bag (-) SetToBag({req})) (+) SetToBag({req2})
Take(bag, req) == bag (-) SetToBag({req})

\* The server answers the pending fetchPlan query req with the user's row as
\* it is now, or fails.
FetchPlanServe(req) ==
    /\ BagIn(req, planFetches)
    /\ req.status = "pending"
    /\ \/ planFetches' = Replace(planFetches, req,
                                 [req EXCEPT !.status = "ok", !.data = profiles[req.uid]])
       \/ planFetches' = Replace(planFetches, req, [req EXCEPT !.status = "error"])
    /\ lastEvent' = NoEvent
    /\ UNCHANGED step3Vars
    /\ UNCHANGED <<user, mounted, route, careerCasts, loading, showPricingPopup,
                   isPremiumActive, planRenewsAt, channel, channels, notifications,
                   castFetches, profiles, jobRequests, now>>

\* fetchPlan resumes after its await with the answer of req: the flag is set
\* from the row, or to false in the catch block.
FetchPlanResolve(req) ==
    /\ BagIn(req, planFetches)
    /\ req.status # "pending"
    /\ IF req.status = "ok"
       THEN /\ isPremiumActive' = FetchPlanActive(req.data, now)
            /\ planRenewsAt' = req.data.plan_renews_at
       ELSE /\ isPremiumActive' = JsFalse
            /\ UNCHANGED planRenewsAt
    /\ planFetches' = Take(planFetches, req)
    /\ lastEvent' = NoEvent
    /\ UNCHANGED step3Vars
    /\ UNCHANGED <<user, mounted, route, careerCasts, loading, showPricingPopup,
                   channel, channels, notifications, castFetches, profiles,
                   jobRequests, now>>

\* The realtime server acknowledges the subscription of a channel.
ChannelJoined(id) ==
    /\ \E c \in channels :
          /\ c.id = id
          /\ ~c.joined
          /\ channels' = (channels \ {c}) \cup {[c EXCEPT !.joined = TRUE]}
    /\ lastEvent' = NoEvent
    /\ UNCHANGED step3Vars
    /\ UNCHANGED <<user, mounted, route, careerCasts, loading, showPricingPopup,
                   isPremiumActive, planRenewsAt, channel, notifications,
                   planFetches, castFetches, profiles, jobRequests, now>>

\* The notifications an UPDATE of user u's profiles row raises: one for every
\* joined channel whose filter is id=eq.u, in channel order.
UpdateNotifications(chs, u, r) ==
    LET ids == SelectSeq([i \in 1..MaxChannels |-> i],
                         LAMBDA i : [id |-> i, uid |-> u, joined |-> TRUE] \in chs)
    IN [k \in 1..Len(ids) |-> [chan |-> ids[k], new |-> r]]

\* The backend updates user u's profiles row; r holds its plan fields after
\* the UPDATE (the same as before when other columns were written).
ProfileUpdate(u, r) ==
    /\ Len(notifications) + Len(UpdateNotifications(channels, u, r)) <= MaxQueue
    /\ profiles' = [profiles EXCEPT ![u] = r]
    /\ notifications' = notifications \o UpdateNotifications(channels, u, r)
    /\ lastEvent' = NoEvent
    /\ UNCHANGED step3Vars
    /\ UNCHANGED <<user, mounted, route, careerCasts, loading, showPricingPopup,
                   isPremiumActive, planRenewsAt, channel, channels, planFetches,
                   castFetches, jobRequests, now>>

\* The 'plan-updates' callback runs on the oldest queued notification.
PlanCallback ==
    /\ notifications # <<>>
    /\ IF mounted
       THEN /\ isPremiumActive' = CallbackActive(Head(notifications).new, now)
            /\ planRenewsAt' = Head(notifications).new.plan_renews_at
       ELSE UNCHANGED <<isPremiumActive, planRenewsAt>>
    /\ notifications' = Tail(notifications)
    /\ lastEvent' = NoEvent
    /\ UNCHANGED step3Vars
    /\ UNCHANGED <<user, mounted, route, careerCasts, loading, showPricingPopup,
                   channel, channels, planFetches, castFetches, profiles,
                   jobRequests, now>>

\* data || []
DataOrEmpty(data) == IF data.present THEN data.items ELSE <<>>

\* What the job_requests query of user u can answer: the user's rows (the
\* table does not change while the view is open), no data, or an error.
CastsResponses(u) ==
    {[status |-> "ok", data |-> Array(jobRequests[u])],
     [status |-> "ok", data |-> NullArray],
     [status |-> "error", data |-> NullArray]}

\* fetchCareerCasts resumes after its await with response resp: the rows are
\* stored unless the query failed; loading ends either way.
FetchCastsResolve(req, resp) ==
    /\ BagIn(req, castFetches)
    /\ resp \in CastsResponses(req.uid)
    /\ IF resp.status = "ok"
       THEN careerCasts' = DataOrEmpty(resp.data)
       ELSE UNCHANGED careerCasts
    /\ loading' = FALSE
    /\ castFetches' = Take(castFetches, req)
    /\ lastEvent' = NoEvent
    /\ UNCHANGED step3Vars
    /\ UNCHANGED <<user, mounted, route, showPricingPopup, isPremiumActive, planRenewsAt, channel, channels, notifications, planFetches,
                   profiles, jobRequests, now>>

\* Time passes.
Tick ==
    /\ now < MaxNow
    /\ now' = now + 1
    /\ lastEvent' = NoEvent
    /\ UNCHANGED step3Vars
    /\ UNCHANGED <<user, mounted, route, careerCasts, loading, showPricingPopup,
                   isPremiumActive, planRenewsAt, channel, channels, notifications,
                   planFetches, castFetches, profiles, jobRequests>>

\* ------------------------------------------------------ Dashboard handlers

\* careerCasts.filter((cast) => cast.status === 'recorded').length
CompletedRecordings(casts) ==
    Len(SelectSeq(casts, LAMBDA cast : cast.status = "recorded"))

\* The free plan's limit of completed recordings.
FreeLimit == 3

\* A gate that blocks only above the limit (> in place of >=).
NewCastOutcomeAboveLimit(premium, casts) ==
    IF Truthy(premium) THEN "navigate"
    ELSE IF CompletedRecordings(casts) > FreeLimit THEN "popup"
    ELSE "navigate"

\* What handleNewCast decides: "navigate" or "popup".
NewCastOutcome(premium, casts) ==
    IF Truthy(premium) THEN "navigate"
    ELSE IF CompletedRecordings(casts) >= FreeLimit THEN "popup"
    ELSE "navigate"

\* handleNewCast (both 'New CareerCast' buttons).
HandleNewCast ==
    /\ mounted
    /\ lastEvent' = <<"handleNewCast">>
    /\ UNCHANGED step3Vars
    /\ IF NewCastOutcome(isPremiumActive, careerCasts) = "navigate"
       THEN Navigate(Step1Route)
       ELSE /\ showPricingPopup' = TRUE
            /\ UNCHANGED <<mounted, route, careerCasts, loading, isPremiumActive, planRenewsAt, channel, channels, notifications,
                           planFetches, castFetches>>
    /\ UNCHANGED <<user, profiles, jobRequests, now>>

\* A popup rendered whatever the plan: showPricingPopup alone.
PopupShownWhateverPlan == mounted /\ showPricingPopup

\* The upgrade popup is rendered: !isPremiumActive && showPricingPopup.
PopupShown == mounted /\ ~Truthy(isPremiumActive) /\ showPricingPopup

\* handleClosePricingPopup (the popup's X button).
HandleClosePricingPopup ==
    /\ PopupShown
    /\ showPricingPopup' = FALSE
    /\ lastEvent' = <<"handleClosePricingPopup">>
    /\ UNCHANGED step3Vars
    /\ UNCHANGED <<user, mounted, route, careerCasts, loading, isPremiumActive, planRenewsAt, channel, channels, notifications, planFetches,
                   castFetches, profiles, jobRequests, now>>

\* The popup's 'Upgrade Now' button: the popup is closed, then navigate('/billing').
HandleUpgradeNow ==
    /\ PopupShown
    /\ Navigate(BillingRoute)
    /\ lastEvent' = <<"upgradeNow">>
    /\ UNCHANGED step3Vars
    /\ UNCHANGED <<user, profiles, jobRequests, now>>

\* handleLogout (the sidebar): navigate('/').
HandleLogout ==
    /\ mounted
    /\ Navigate(HomeRoute)
    /\ lastEvent' = <<"handleLogout">>
    /\ UNCHANGED step3Vars
    /\ UNCHANGED <<user, profiles, jobRequests, now>>

\* The table of rows is rendered: not loading and at least one row.
RowsShown == mounted /\ ~loading /\ Len(careerCasts) > 0

\* A video reference taken from the last recording instead of the first.
RowVideoLast(cast) ==
    JsOr(IF cast.recordings.present /\ Len(cast.recordings.items) > 0
         THEN cast.recordings.items[Len(cast.recordings.items)].storage_path
         ELSE JsUndefined,
         JsNull)

\* const video = cast.recordings?.[0]?.storage_path || null
RowVideo(cast) ==
    JsOr(IF cast.recordings.present /\ Len(cast.recordings.items) > 0
         THEN cast.recordings.items[1].storage_path
         ELSE JsUndefined,
         JsNull)

\* const both = cast.resume_path && video
RowBoth(cast) == JsAnd(cast.resume_path, RowVideo(cast))

\* The View button's `disabled={!both}`.
ViewDisabled(cast) == ~Truthy(RowBoth(cast))

\* A click on row i's View button: a disabled button runs no handler; else
\* onClick runs `both && handleViewDetails(cast.id)`.
ViewClick(i) ==
    /\ RowsShown
    /\ i \in 1..Len(careerCasts)
    /\ lastEvent' = <<"viewClick", i>>
    /\ UNCHANGED step3Vars
    /\ IF ~ViewDisabled(careerCasts[i]) /\ Truthy(RowBoth(careerCasts[i]))
       THEN Navigate(FinalResultRoute(careerCasts[i].id))
       ELSE UNCHANGED <<mounted, route, careerCasts, loading, showPricingPopup,
                        isPremiumActive, planRenewsAt, channel, channels,
                        notifications, planFetches, castFetches>>
    /\ UNCHANGED <<user, profiles, jobRequests, now>>

\* handleReRecord (row i's Re-record button): navigate(`/record/${id}`).
HandleReRecord(i) ==
    /\ RowsShown
    /\ i \in 1..Len(careerCasts)
    /\ Navigate(RecordRoute(careerCasts[i].id))
    /\ lastEvent' = <<"handleReRecord", i>>
    /\ UNCHANGED step3Vars
    /\ UNCHANGED <<user, profiles, jobRequests, now>>

\* ===================================================================== Step 3

\* Step 3's strings are sequences of characters; NullStr is the null that
\* localStorage.getItem returns for an absent key (and a missing property).
NullStr == <<JsNull>>

\* ToBoolean of a string or null.
StrTruthy(s) == s # NullStr /\ s # <<>>

\* a || b on strings.
StrOr(a, b) == IF StrTruthy(a) THEN a ELSE b

Min(a, b) == IF a < b THEN a ELSE b
Max(a, b) == IF a > b THEN a ELSE b

\* A slice that keeps the character at its end index as well.
SliceInclusive(s, b, e) ==
    LET from == IF b < 0 THEN Max(Len(s) + b, 0) ELSE Min(b, Len(s))
        to == IF e < 0 THEN Max(Len(s) + e + 1, 0) ELSE Min(e + 1, Len(s))
    IN IF from < to THEN SubSeq(s, from + 1, to) ELSE <<>>

\* String.prototype.slice(b, e).
Slice(s, b, e) ==
    LET from == IF b < 0 THEN Max(Len(s) + b, 0) ELSE Min(b, Len(s))
        to == IF e < 0 THEN Max(Len(s) + e, 0) ELSE Min(e, Len(s))
    IN IF from < to THEN SubSeq(s, from + 1, to) ELSE <<>>

\* String.prototype.includes(p).
Includes(s, p) == \E i \in 0..(Len(s) - Len(p)) : SubSeq(s, i + 1, i + Len(p)) = p

\* The fixed text of buildPrompt's template, between its three substitutions.
PromptHead ==
    <<"\n", " ", " ", " ", " ", " ", " ", "Y", "o", "u", " ", "a", "r", "e", " ", "a",
      " ", "p", "r", "o", "f", "e", "s", "s", "i", "o", "n", "a", "l", " ", "c", "a",
      "r", "e", "e", "r", " ", "c", "o", "a", "c", "h", ".", "\n", " ", " ", " ", " ",
      " ", " ", "C", "r", "e", "a", "t", "e", " ", "a", " ", "3", "0", "-", "6", "0",
      " ", "s", "e", "c", "o", "n", "d", " ", "v", "i", "d", "e", "o", " ", "i", "n",
      "t", "r", "o", "d", "u", "c", "t", "i", "o", "n", " ", "s", "c", "r", "i", "p",
      "t", " ", "f", "o", "r", " ", "a", " ", "c", "a", "n", "d", "i", "d", "a", "t",
      "e", " ", "a", "p", "p", "l", "y", "i", "n", "g", " ", "f", "o", "r", " ", "t",
      "h", "e", " ", "p", "o", "s", "i", "t", "i", "o", "n", " ", "o", "f", " ", "\"">>
PromptJobDescription ==
    <<"\"", ".", "\n", " ", " ", " ", " ", " ", " ", "\n", " ", " ", " ", " ", " ",
      " ", "J", "o", "b", " ", "D", "e", "s", "c", "r", "i", "p", "t", "i", "o", "n",
      ":", "\n", " ", " ", " ", " ", " ", " ">>
PromptResume ==
    <<"\n", "\n", " ", " ", " ", " ", " ", " ", "C", "a", "n", "d", "i", "d", "a", "t",
      "e", "'", "s", " ", "R", "e", "s", "u", "m", "e", ":", "\n", " ", " ", " ", " ",
      " ", " ">>
PromptTail ==
    <<"\n", "\n", " ", " ", " ", " ", " ", " ", "T", "h", "e", " ", "s", "c", "r", "i",
      "p", "t", " ", "s", "h", "o", "u", "l", "d", " ", "b", "e", ":", "\n", " ", " ",
      " ", " ", " ", " ", "-", " ", "P", "r", "o", "f", "e", "s", "s", "i", "o", "n",
      "a", "l", ",", " ", "c", "o", "n", "f", "i", "d", "e", "n", "t", ",", " ", "a",
      "n", "d", " ", "e", "n", "g", "a", "g", "i", "n", "g", ".", "\n", " ", " ", " ",
      " ", " ", " ", "-", " ", "H", "i", "g", "h", "l", "i", "g", "h", "t", " ", "k",
      "e", "y", " ", "s", "k", "i", "l", "l", "s", " ", "m", "a", "t", "c", "h", "i",
      "n", "g", " ", "t", "h", "e", " ", "j", "o", "b", " ", "d", "e", "s", "c", "r",
      "i", "p", "t", "i", "o", "n", ".", "\n", " ", " ", " ", " ", " ", " ", "-", " ",
      "W", "r", "i", "t", "t", "e", "n", " ", "i", "n", " ", "t", "h", "e", " ", "f",
      "i", "r", "s", "t", " ", "p", "e", "r", "s", "o", "n", " ", "(", "\"", "I", " ",
      "a", "m", ".", ".", ".", "\"", ")", ".", "\n", " ", " ", " ", " ", " ", " ", "-",
      " ", "E", "a", "s", "y", " ", "t", "o", " ", "r", "e", "a", "d", " ", "a", "l",
      "o", "u", "d", " ", "(", "t", "e", "l", "e", "p", "r", "o", "m", "p", "t", "e",
      "r", " ", "f", "r", "i", "e", "n", "d", "l", "y", ")", ".", "\n", " ", " ", " ",
      " ", " ", " ", "-", " ", "N", "o", " ", "p", "l", "a", "c", "e", "h", "o", "l",
      "d", "e", "r", "s", " ", "l", "i", "k", "e", " ", "[", "Y", "o", "u", "r", " ",
      "N", "a", "m", "e", "]", ",", " ", "u", "s", "e", " ", "t", "h", "e", " ", "c",
      "a", "n", "d", "i", "d", "a", "t", "e", "'", "s", " ", "a", "c", "t", "u", "a",
      "l", " ", "d", "e", "t", "a", "i", "l", "s", " ", "i", "f", " ", "a", "v", "a",
      "i", "l", "a", "b", "l", "e", ",", " ", "o", "r", " ", "g", "e", "n", "e", "r",
      "i", "c", " ", "b", "u", "t", " ", "n", "a", "t", "u", "r", "a", "l", " ", "p",
      "h", "r", "a", "s", "i", "n", "g", ".", "\n", " ", " ", " ", " ">>

\* The characters buildPrompt keeps of the job description and of the resume.
JobDescLimit == 1500
ResumeLimit == 2000

\* buildPrompt(jobTitle, jobDesc, resumeText).
BuildPrompt(jobTitle, jobDesc, resumeText) ==
    PromptHead \o jobTitle \o PromptJobDescription
      \o Slice(jobDesc, 0, JobDescLimit) \o PromptResume
      \o Slice(resumeText, 0, ResumeLimit) \o PromptTail

\* The text the mount effect shows when there is no job title.
Placeholder ==
    <<"P", "l", "e", "a", "s", "e", " ", "g", "o", " ", "b", "a", "c", "k", " ", "t",
      "o", " ", "S", "t", "e", "p", " ", "1", " ", "a", "n", "d", " ", "p", "r", "o",
      "v", "i", "d", "e", " ", "j", "o", "b", " ", "d", "e", "t", "a", "i", "l", "s",
      " ", "t", "o", " ", "g", "e", "n", "e", "r", "a", "t", "e", " ", "y", "o", "u",
      "r", " ", "p", "e", "r", "s", "o", "n", "a", "l", "i", "z", "e", "d", " ", "i",
      "n", "t", "r", "o", "d", "u", "c", "t", "i", "o", "n", ".">>

\* callOpenAI's result when the answer holds no introduction.
NoIntroduction ==
    <<"C", "o", "u", "l", "d", " ", "n", "o", "t", " ", "g", "e", "n", "e", "r", "a",
      "t", "e", " ", "i", "n", "t", "r", "o", "d", "u", "c", "t", "i", "o", "n", ".">>

\* The text handleStartRecording refuses.
PleaseGoBack ==
    <<"P", "l", "e", "a", "s", "e", " ", "g", "o", " ", "b", "a", "c", "k">>

\* The messages of setError and showToast.
MissingMsg == "Missing job title, description, or resume. Please complete Step 1 and 2 first."
GenericMsg == "Something went wrong while generating."
Step1Msg == "Please complete Step 1 (Job Details) first."
FailToast == "Failed to generate script. Please try again."
WaitToast == "Wait for AI to generate your script first."

\* The local storage keys.
JobTitleKey == "careercast_jobTitle"
JobDescriptionKey == "careercast_jobDescription"
ResumeKey == "resumeFullText"
TextKey == "teleprompterText"
SpeedKey == "teleprompterSpeed"
StorageKeys == {JobTitleKey, JobDescriptionKey, ResumeKey, TextKey, SpeedKey}

Step3Route == <<"/step3">>
RecordingRoute == <<"/record">>

\* ---- the strings the model draws its inputs from

JobTitles == {NullStr, <<>>, <<"Q", "A">>}
JobDescriptions == {NullStr, <<>>, <<"t", "e", "s", "t", "s">>}
ResumeTexts == {NullStr, <<>>, <<"C", "V">>}

\* Stored scripts: none, one of 10 characters, one of 11 and a longer one.
TenChars == <<"0", "1", "2", "3", "4", "5", "6", "7", "8", "9">>
SavedScript == TenChars \o <<"!">>
SavedScripts == {NullStr, TenChars, SavedScript}

\* What the user types into the field.
EditedScript == <<"I", " ", "a", "m", " ", "r", "e", "a", "d", "y", ".">>
QuotingEdit == <<"N", "o", ":", " ">> \o PleaseGoBack \o <<".">>
EditTexts == {<<>>, EditedScript, QuotingEdit}

\* The slider's values, in tenths: 0.5, 1 and 2.
Speeds == {5, 10, 20}

\* What supabase.functions.invoke answers: data with an introduction (a
\* script, '' or none), or an error with a message.
GeneratedScript == <<"H", "e", "l", "l", "o", ",", " ", "I", " ", "a", "m", ".">>
InvokeResponses ==
    {[ok |-> TRUE, introduction |-> i, message |-> JsNull] :
        i \in {GeneratedScript, <<>>, NullStr}}
      \cup {[ok |-> FALSE, introduction |-> NullStr, message |-> m] :
              m \in {"Edge Function returned a non-2xx status code", ""}}

\* ---- generateIntroduction

\* The decimal digits of a number below 10.
Digit(n) == <<"0", "1", "2", "3", "4", "5", "6", "7", "8", "9">>[n + 1]

\* teleprompterSpeed.toString(), the speed being n tenths (below 10.0).
SpeedToString(n) ==
    IF n % 10 = 0 THEN <<Digit(n \div 10)>>
    ELSE <<Digit(n \div 10), ".", Digit(n % 10)>>

\* A check of the inputs that forgets the resume text.
MissingInputsNoResume(jobTitle, jobDescription, resumeText) ==
    ~StrTruthy(jobTitle) \/ ~StrTruthy(jobDescription)

\* if (!jobTitle || !jobDescription || !resumeText)
MissingInputs(jobTitle, jobDescription, resumeText) ==
    ~StrTruthy(jobTitle) \/ ~StrTruthy(jobDescription) \/ ~StrTruthy(resumeText)

\* No generation pending: the snapshot is empty.
NoGenStart == [text |-> <<>>, stored |-> NullStr]

\* generateIntroduction up to its await (or to its end, when an input is
\* missing): the state it leaves, given storage ls, pending calls reqs, the
\* field's text and the last toast.
GenerateBegin(ls, reqs, text, lastToast) ==
    IF MissingInputs(ls[JobTitleKey], ls[JobDescriptionKey], ls[ResumeKey])
    THEN [isGenerating |-> FALSE, error |-> MissingMsg, toast |-> FailToast,
          requests |-> reqs, invocations |-> 0, genStart |-> NoGenStart]
    ELSE [isGenerating |-> TRUE, error |-> JsNull, toast |-> lastToast,
          requests |-> reqs (+) SetToBag({[live |-> TRUE,
                                          prompt |-> BuildPrompt(ls[JobTitleKey],
                                                                 ls[JobDescriptionKey],
                                                                 ls[ResumeKey])]}),
          invocations |-> 1,
          genStart |-> [text |-> text, stored |-> ls[TextKey]]]

\* Whether generateIntroduction can run within the model's bound on calls.
GenerateFits(ls, reqs) ==
    MissingInputs(ls[JobTitleKey], ls[JobDescriptionKey], ls[ResumeKey])
      \/ BagCardinality(reqs) < MaxRequests

\* A mount effect that takes a stored script of 10 characters as well.
MountBranchFromTen(ls) ==
    IF StrTruthy(ls[TextKey]) /\ Len(ls[TextKey]) >= 10 THEN "saved"
    ELSE IF StrTruthy(ls[JobTitleKey]) THEN "generate"
    ELSE "placeholder"

\* The branch the mount effect takes: "saved", "generate" or "placeholder".
MountBranch(ls) ==
    IF StrTruthy(ls[TextKey]) /\ Len(ls[TextKey]) > 10 THEN "saved"
    ELSE IF StrTruthy(ls[JobTitleKey]) THEN "generate"
    ELSE "placeholder"

\* The component is mounted: state is initialised and the mount effect runs.
Step3Mount ==
    /\ ~s3Mounted
    /\ ~mounted
    /\ s3Mounted' = TRUE
    /\ route' = Step3Route
    /\ isRewriting' = FALSE
    /\ teleprompterSpeed' = 10
    /\ lastEvent' = <<"step3Mount", MountBranch(localStorage)>>
    /\ CASE MountBranch(localStorage) = "saved" ->
              /\ teleprompterText' = localStorage[TextKey]
              /\ isGenerating' = FALSE
              /\ error' = JsNull
              /\ invocations' = 0
              /\ UNCHANGED <<requests, genStart, toast>>
         [] MountBranch(localStorage) = "generate" ->
              /\ GenerateFits(localStorage, requests)
              /\ LET g == GenerateBegin(localStorage, requests, <<>>, toast)
                 IN /\ isGenerating' = g.isGenerating
                    /\ error' = g.error
                    /\ toast' = g.toast
                    /\ requests' = g.requests
                    /\ invocations' = g.invocations
                    /\ genStart' = g.genStart
              /\ teleprompterText' = <<>>
         [] OTHER ->
              /\ error' = Step1Msg
              /\ teleprompterText' = Placeholder
              /\ isGenerating' = FALSE
              /\ invocations' = 0
              /\ UNCHANGED <<requests, genStart, toast>>
    /\ UNCHANGED localStorage
    /\ UNCHANGED dashOnlyVars

\* A click on Regenerate (disabled while generating): generateIntroduction.
GenerateIntroduction ==
    /\ s3Mounted
    /\ ~isGenerating
    /\ GenerateFits(localStorage, requests)
    /\ LET g == GenerateBegin(localStorage, requests, teleprompterText, toast)
       IN /\ isGenerating' = g.isGenerating
          /\ error' = g.error
          /\ toast' = g.toast
          /\ requests' = g.requests
          /\ invocations' = g.invocations
          /\ genStart' = g.genStart
    /\ isRewriting' = IF isGenerating' THEN isRewriting ELSE FALSE
    /\ lastEvent' = <<"generateIntroduction">>
    /\ UNCHANGED <<s3Mounted, route, teleprompterText, teleprompterSpeed, localStorage>>
    /\ UNCHANGED dashOnlyVars

\* callOpenAI's return value for an answer without error.
IntroductionOf(resp) == StrOr(resp.introduction, NoIntroduction)

\* The catch block's message: err.message || "Something went wrong ...".
ErrorMessageOf(resp) == JsOr(resp.message, GenericMsg)

\* generateIntroduction resumes after its await with the answer resp of the
\* call req.  The result is written to local storage in any case; the state
\* setters act only on the view that made the call, if it is still mounted.
GenerateResume(req, resp) ==
    /\ BagIn(req, requests)
    /\ requests' = Take(requests, req)
    /\ IF resp.ok
       THEN /\ localStorage' = [localStorage EXCEPT ![TextKey] = IntroductionOf(resp)]
            /\ teleprompterText' =
                  IF req.live THEN IntroductionOf(resp) ELSE teleprompterText
            /\ UNCHANGED <<error, toast>>
       ELSE /\ error' = IF req.live THEN ErrorMessageOf(resp) ELSE error
            /\ toast' = FailToast
            /\ UNCHANGED <<localStorage, teleprompterText>>
    /\ isGenerating' = IF req.live THEN FALSE ELSE isGenerating
    /\ isRewriting' = IF req.live THEN FALSE ELSE isRewriting
    /\ genStart' = IF req.live THEN NoGenStart ELSE genStart
    /\ lastEvent' = <<"generateResume", resp.ok, req.live>>
    /\ UNCHANGED <<s3Mounted, route, teleprompterSpeed, invocations>>
    /\ UNCHANGED dashOnlyVars

\* An edit that reaches the field but not local storage.
HandleTextChangeNoStore(value) ==
    /\ s3Mounted
    /\ ~isGenerating
    /\ value # teleprompterText
    /\ teleprompterText' = value
    /\ lastEvent' = <<"handleTextChange">>
    /\ UNCHANGED <<s3Mounted, route, isGenerating, isRewriting, error, localStorage,
                   teleprompterSpeed, requests, invocations, genStart, toast>>
    /\ UNCHANGED dashOnlyVars

\* handleTextChange (the textarea is disabled while generating).
HandleTextChange(value) ==
    /\ s3Mounted
    /\ ~isGenerating
    /\ value # teleprompterText
    /\ teleprompterText' = value
    /\ localStorage' = [localStorage EXCEPT ![TextKey] = value]
    /\ lastEvent' = <<"handleTextChange">>
    /\ UNCHANGED <<s3Mounted, route, isGenerating, isRewriting, error,
                   teleprompterSpeed, requests, invocations, genStart, toast>>
    /\ UNCHANGED dashOnlyVars

\* The speed slider's onChange.
HandleSpeedChange(n) ==
    /\ s3Mounted
    /\ n # teleprompterSpeed
    /\ teleprompterSpeed' = n
    /\ lastEvent' = <<"speedChange">>
    /\ UNCHANGED <<s3Mounted, route, teleprompterText, isGenerating, isRewriting,
                   error, localStorage, requests, invocations, genStart, toast>>
    /\ UNCHANGED dashOnlyVars

\* The view is left: its state is gone, its pending calls go on without it.
Step3Leave(path) ==
    /\ route' = path
    /\ s3Mounted' = FALSE
    /\ teleprompterText' = <<>>
    /\ isGenerating' = FALSE
    /\ isRewriting' = FALSE
    /\ error' = JsNull
    /\ teleprompterSpeed' = 10
    /\ invocations' = 0
    /\ genStart' = NoGenStart
    /\ requests' = BagOfAll(LAMBDA r : [r EXCEPT !.live = FALSE], requests)

\* A handleStartRecording that stores the script but not the speed.
HandleStartRecordingNoSpeed ==
    /\ s3Mounted
    /\ ~isGenerating
    /\ StrTruthy(teleprompterText)
    /\ lastEvent' = <<"handleStartRecording">>
    /\ IF ~StrTruthy(teleprompterText) \/ Includes(teleprompterText, PleaseGoBack)
       THEN /\ toast' = WaitToast
            /\ UNCHANGED <<s3Mounted, route, teleprompterText, isGenerating,
                           isRewriting, error, teleprompterSpeed, localStorage,
                           requests, invocations, genStart>>
       ELSE /\ localStorage' = [localStorage EXCEPT ![TextKey] = teleprompterText]
            /\ Step3Leave(RecordingRoute)
            /\ UNCHANGED toast
    /\ UNCHANGED dashOnlyVars

\* handleStartRecording (the button is disabled while generating and while
\* the field is empty).
HandleStartRecording ==
    /\ s3Mounted
    /\ ~isGenerating
    /\ StrTruthy(teleprompterText)
    /\ lastEvent' = <<"handleStartRecording">>
    /\ IF ~StrTruthy(teleprompterText) \/ Includes(teleprompterText, PleaseGoBack)
       THEN /\ toast' = WaitToast
            /\ UNCHANGED <<s3Mounted, route, teleprompterText, isGenerating,
                           isRewriting, error, teleprompterSpeed, localStorage,
                           requests, invocations, genStart>>
       ELSE /\ localStorage' = [localStorage EXCEPT
                                  ![TextKey] = teleprompterText,
                                  ![SpeedKey] = SpeedToString(teleprompterSpeed)]
            /\ Step3Leave(RecordingRoute)
            /\ UNCHANGED toast
    /\ UNCHANGED dashOnlyVars

\* Step 3's handleLogout (the sidebar): navigate('/').
Step3Logout ==
    /\ s3Mounted
    /\ Step3Leave(HomeRoute)
    /\ lastEvent' = <<"step3Logout">>
    /\ UNCHANGED <<localStorage, toast>>
    /\ UNCHANGED dashOnlyVars

\* Step 3 before it is mounted, with nothing pending.
Step3Idle ==
    /\ s3Mounted = FALSE
    /\ teleprompterText = <<>>
    /\ isGenerating = FALSE
    /\ isRewriting = FALSE
    /\ error = JsNull
    /\ teleprompterSpeed = 10
    /\ requests = EmptyBag
    /\ invocations = 0
    /\ genStart = NoGenStart
    /\ toast = JsNull

\* The local storage Steps 1 and 2 and earlier visits may have left.
Storages ==
    {[k \in StorageKeys |->
        CASE k = JobTitleKey -> jt
          [] k = JobDescriptionKey -> jd
          [] k = ResumeKey -> rt
          [] k = TextKey -> saved
          [] OTHER -> NullStr] :
     jt \in JobTitles, jd \in JobDescriptions, rt \in ResumeTexts, saved \in SavedScripts}

\* ------------------------------------------------- Dashboard specification

DashboardIdle ==
    /\ mounted = FALSE
    /\ route = HomeRoute
    /\ careerCasts = <<>>
    /\ loading = TRUE
    /\ showPricingPopup = FALSE
    /\ isPremiumActive = JsFalse
    /\ planRenewsAt = JsNull
    /\ channel = 0
    /\ channels = {}
    /\ notifications = <<>>
    /\ planFetches = EmptyBag
    /\ castFetches = EmptyBag
    /\ lastEvent = NoEvent

Init ==
    /\ DashboardIdle
    /\ Step3Idle
    /\ localStorage = [k \in StorageKeys |-> NullStr]
    /\ user = NoUser
    /\ profiles = [u \in Users |-> PlanRecord("free", JsNull, JsNull)]
    /\ jobRequests \in [Users -> CastTables]
    /\ now = 0

Next ==
    \/ Mount
    \/ \E u \in Users \cup {NoUser} : AuthChange(u)
    \/ \E req \in BagToSet(planFetches) : FetchPlanServe(req)
    \/ \E req \in BagToSet(planFetches) : FetchPlanResolve(req)
    \/ \E id \in 1..MaxChannels : ChannelJoined(id)
    \/ \E u \in Users, r \in PlanSamples : ProfileUpdate(u, r)
    \/ PlanCallback
    \/ \E req \in BagToSet(castFetches) :
          \E resp \in CastsResponses(req.uid) : FetchCastsResolve(req, resp)
    \/ HandleNewCast
    \/ HandleClosePricingPopup
    \/ HandleUpgradeNow
    \/ HandleLogout
    \/ \E i \in DOMAIN careerCasts : ViewClick(i)
    \/ \E i \in DOMAIN careerCasts : HandleReRecord(i)

Spec == Init /\ [][Next]_vars


\* ------------------------------------------- plan flag over every plan record

\* The Dashboard of user u1 over every plan record and instant: the plan
\* fetch, the channel and its callback, with the row rewritten in place.
InitPlan ==
    /\ DashboardIdle
    /\ Step3Idle
    /\ localStorage = [k \in StorageKeys |-> NullStr]
    /\ user = "u1"
    /\ profiles \in [Users -> PlanRecords]
    /\ jobRequests = [u \in Users |-> <<>>]
    /\ now \in 0..MaxNow

NextPlan ==
    \/ Mount
    \/ \E req \in BagToSet(planFetches) : FetchPlanServe(req)
    \/ \E req \in BagToSet(planFetches) : FetchPlanResolve(req)
    \/ \E id \in 1..MaxChannels : ChannelJoined(id)
    \/ \E u \in Users : ProfileUpdate(u, profiles[u])
    \/ PlanCallback
    \/ \E req \in BagToSet(castFetches) :
          \E resp \in CastsResponses(req.uid) : FetchCastsResolve(req, resp)
    \/ Tick
    \/ HandleLogout

SpecPlan == InitPlan /\ [][NextPlan]_vars

\* ---------------------------------------------- rows of every rendered shape

\* Tables of one row of any shape, or of a complete row followed by one.
RowTables ==
    {<<r>> : r \in AllRows(1)} \cup {<<RecordedRow(1), r>> : r \in AllRows(2)}

\* The Dashboard of user u1 over every shape of submission row.
InitRows ==
    /\ DashboardIdle
    /\ Step3Idle
    /\ localStorage = [k \in StorageKeys |-> NullStr]
    /\ user = "u1"
    /\ profiles = [u \in Users |-> PlanRecord("free", JsNull, JsNull)]
    /\ jobRequests \in [Users -> RowTables]
    /\ now = 0

NextRows ==
    \/ Mount
    \/ \E req \in BagToSet(castFetches) :
          \E resp \in CastsResponses(req.uid) : FetchCastsResolve(req, resp)
    \/ \E i \in DOMAIN careerCasts : ViewClick(i)
    \/ \E i \in DOMAIN careerCasts : HandleReRecord(i)
    \/ HandleLogout

SpecRows == InitRows /\ [][NextRows]_vars


\* ------------------------------------------------------ Step 3 specification

InitStep3 ==
    /\ DashboardIdle
    /\ Step3Idle
    /\ user = "u1"
    /\ profiles = [u \in Users |-> PlanRecord("free", JsNull, JsNull)]
    /\ jobRequests = [u \in Users |-> <<>>]
    /\ now = 0
    /\ localStorage \in Storages

NextStep3 ==
    \/ Step3Mount
    \/ GenerateIntroduction
    \/ \E req \in BagToSet(requests), resp \in InvokeResponses : GenerateResume(req, resp)
    \/ \E value \in EditTexts : HandleTextChange(value)
    \/ \E n \in Speeds : HandleSpeedChange(n)
    \/ HandleStartRecording
    \/ Step3Logout

SpecStep3 == InitStep3 /\ [][NextStep3]_vars


\* ------------------------------------------------- buildPrompt specification

\* Characters that occur nowhere in buildPrompt's template: three for the part
\* of an input within its limit, one for what a job description has beyond
\* its limit and one for what a resume text has beyond its limit.
BodyChars == <<"x", "y", "z">>
DescExcessChar == "#"
ResumeExcessChar == "@"

\* A string of n characters: a pattern of body characters (shifted by k) up
\* to the limit, the excess character after it.
InputText(n, k, limit, excess) ==
    [i \in 1..n |-> IF i <= limit THEN BodyChars[((i + k) % Len(BodyChars)) + 1]
                                 ELSE excess]

\* Lengths below, at and beyond a limit.
LengthsAround(limit) == {1, limit - 1, limit, limit + 1, limit + MaxExcess}

PromptTitles == {<<"Q", "A">>, <<"\"", "\n", "$", "{", "}">>}
PromptJobDescriptions ==
    {InputText(n, k, JobDescLimit, DescExcessChar) :
        n \in LengthsAround(JobDescLimit), k \in {0, 1}}
PromptResumeTexts ==
    {InputText(n, k, ResumeLimit, ResumeExcessChar) :
        n \in LengthsAround(ResumeLimit), k \in {0, 1}}

PromptStorages ==
    {[k \in StorageKeys |->
        CASE k = JobTitleKey -> jt
          [] k = JobDescriptionKey -> jd
          [] k = ResumeKey -> rt
          [] OTHER -> NullStr] :
     jt \in PromptTitles, jd \in PromptJobDescriptions, rt \in PromptResumeTexts}

InitPrompt ==
    /\ DashboardIdle
    /\ Step3Idle
    /\ user = "u1"
    /\ profiles = [u \in Users |-> PlanRecord("free", JsNull, JsNull)]
    /\ jobRequests = [u \in Users |-> <<>>]
    /\ now = 0
    /\ localStorage \in PromptStorages

\* The steps of the view that build a prompt, and the answer to its request.
NextPrompt ==
    \/ Step3Mount
    \/ GenerateIntroduction
    \/ \E req \in BagToSet(requests), resp \in InvokeResponses : GenerateResume(req, resp)

SpecPrompt == InitPrompt /\ [][NextPrompt]_vars


\* ===================================================================== claims

\* A value that is there: not null, not undefined, not the empty string.
Present(v) == v \notin {JsNull, JsUndefined, ""}

\* The plan record rec is premium-active at instant t: tier "premium", status
\* "active", and a renewal timestamp that is present and strictly after t.
PremiumActiveAt(rec, t) ==
    /\ rec.plan_tier = "premium"
    /\ rec.plan_status = "active"
    /\ Present(rec.plan_renews_at)
    /\ \E i \in 0..MaxNow : rec.plan_renews_at = StampOf(i) /\ i > t

\* A step in which fetchPlan resumes with the row of request req.
FetchPlanDelivers(req) ==
    /\ mounted /\ mounted'
    /\ BagIn(req, planFetches)
    /\ req.status = "ok"
    /\ planFetches' = Take(planFetches, req)

\* A step in which the channel callback runs on the oldest notification.
CallbackDelivers ==
    /\ mounted /\ mounted'
    /\ notifications # <<>>
    /\ notifications' = Tail(notifications)
    /\ channels' = channels

\* C1: the flag computed from a plan record, by fetchPlan and by the channel
\* callback alike, is the boolean true if the record is premium-active at the
\* current time and the boolean false for every other record.
C1_FlagIsBooleanIff ==
    [][/\ \A req \in BagToSet(planFetches) :
            FetchPlanDelivers(req) =>
                isPremiumActive' = JsBool(PremiumActiveAt(req.data, now))
       /\ CallbackDelivers =>
            isPremiumActive' = JsBool(PremiumActiveAt(Head(notifications).new, now))]_vars

\* C2: every click on 'New CareerCast' either navigates to /step1 (premium, or
\* fewer than 3 loaded submissions with status 'recorded') or opens the upgrade
\* prompt without navigating (not premium and 3 or more), never both.
C2_NewCastGate ==
    [][lastEvent' = <<"handleNewCast">> =>
          IF Truthy(isPremiumActive)
                \/ Cardinality({i \in DOMAIN careerCasts :
                                    careerCasts[i].status = "recorded"}) < 3
          THEN route' = Step1Route /\ ~showPricingPopup'
          ELSE showPricingPopup' /\ route' = route /\ mounted']_vars

\* C2 happens: a click was blocked and the prompt is open.
C2_Witness ==
    /\ lastEvent = <<"handleNewCast">>
    /\ mounted
    /\ showPricingPopup
    /\ Len(careerCasts) >= 3

\* C3: a click on 'New CareerCast' by a user whose flag is false and who has
\* 3 or more recorded submissions in the backend is blocked, whatever the
\* state of the submissions fetch: the prompt opens and nothing navigates.
C3_BlockedWhateverTheFetch ==
    [][(/\ lastEvent' = <<"handleNewCast">>
        /\ user \in Users
        /\ ~Truthy(isPremiumActive)
        /\ CompletedRecordings(jobRequests[user]) >= 3)
          => showPricingPopup' /\ route' = route /\ mounted']_vars

\* Nothing of the plan is in flight: every fetchPlan has resumed, every
\* notification was delivered and the channel is joined.
PlanQuiescent ==
    /\ mounted
    /\ user \in Users
    /\ planFetches = EmptyBag
    /\ notifications = <<>>
    /\ \A c \in channels : c.joined

\* C7: once everything in flight was delivered, the flag is the premium-active
\* value of the user's current profiles row.
C7_FlagCurrent ==
    PlanQuiescent => (Truthy(isPremiumActive) <=> PremiumActiveAt(profiles[user], now))

\* C8: at most one channel opened by the view is live, it is the one of the
\* current effect and user, none is live after unmount, and none exists while
\* there is no authenticated user.
C8_ChannelLifecycle ==
    /\ Cardinality(channels) <= 1
    /\ \A c \in channels : c.id = channel /\ c.uid = user
    /\ ~mounted => channels = {}
    /\ user = NoUser => channels = {}

\* C8 happens: the view was dismissed from the upgrade prompt, which only a
\* view that had loaded a user's submissions can show.
C8_Witness ==
    /\ ~mounted
    /\ route = BillingRoute
    /\ channels = {}

\* The row has a resume reference / its first recording has a storage path.
HasResume(cast) == Present(cast.resume_path)
HasFirstVideo(cast) ==
    /\ cast.recordings.present
    /\ cast.recordings.items # <<>>
    /\ Present(Head(cast.recordings.items).storage_path)

\* C10: a row's View action is enabled, and a click on it navigates to the
\* row's detail view, if and only if the row has a resume reference and its
\* first recording has a storage path; a click on any other row does nothing.
C10_ViewAction ==
    [][\A i \in DOMAIN careerCasts :
          /\ RowsShown =>
                (~ViewDisabled(careerCasts[i])
                    <=> (HasResume(careerCasts[i]) /\ HasFirstVideo(careerCasts[i])))
          /\ lastEvent' = <<"viewClick", i>> =>
                IF HasResume(careerCasts[i]) /\ HasFirstVideo(careerCasts[i])
                THEN route' = FinalResultRoute(careerCasts[i].id)
                ELSE route' = route /\ mounted']_vars

\* C10 happens: a click on the View action of a row whose resume is there and
\* whose second recording, not its first, has a storage path.
C10_Witness ==
    /\ lastEvent = <<"viewClick", 1>>
    /\ mounted
    /\ Len(careerCasts) = 1
    /\ careerCasts[1].resume_path = "file"
    /\ careerCasts[1].recordings = Array(<<Recording(JsNull), Recording("file")>>)


\* One of the three stored inputs is absent or empty.
SomeInputMissing ==
    \E k \in {JobTitleKey, JobDescriptionKey, ResumeKey} :
        localStorage[k] = NullStr \/ localStorage[k] = <<>>

\* C4: when generateIntroduction runs (from Regenerate or from the mount
\* effect) and one of the three stored inputs is absent or empty, the remote
\* function is not invoked, the inline error message is set, and the script
\* field and the stored script stay as they were.
C4_MissingInputBlocks ==
    [][(/\ lastEvent' \in {<<"generateIntroduction">>, <<"step3Mount", "generate">>}
        /\ SomeInputMissing)
          => /\ requests' = requests
             /\ invocations' = 0
             /\ error' = MissingMsg
             /\ ~isGenerating'
             /\ teleprompterText' = teleprompterText
             /\ localStorage' = localStorage]_vars

\* C4 happens: Regenerate was clicked on a shown script with the resume text
\* empty, and the message is set.
C4_Witness ==
    /\ lastEvent = <<"generateIntroduction">>
    /\ localStorage[ResumeKey] = <<>>
    /\ StrTruthy(localStorage[JobTitleKey])
    /\ StrTruthy(localStorage[JobDescriptionKey])
    /\ teleprompterText = SavedScript
    /\ error = MissingMsg

\* C5 as stated: in every state of the mounted view the stored script equals
\* the script field.
C5_StoredEqualsField ==
    s3Mounted => localStorage[TextKey] = teleprompterText

\* C5 as amended: every step that gives the script field of the mounted view
\* a new text other than the mount placeholder (an edit, a successful
\* generation, mount adopting a stored script) leaves the stored script equal
\* to the field.
C5_StoredFollowsField ==
    [][(/\ s3Mounted'
        /\ teleprompterText' # teleprompterText
        /\ teleprompterText' # Placeholder)
          => localStorage'[TextKey] = teleprompterText']_vars

\* C5 happens: the user has typed a script over a generated one.
C5_Witness ==
    /\ lastEvent = <<"handleTextChange">>
    /\ teleprompterText = EditedScript
    /\ localStorage[TextKey] = EditedScript
    /\ genStart = NoGenStart

\* C6: when the remote call of the view's generation fails, the failure
\* notification is shown, the script field and the stored script have the
\* values they had when the generation was started, the remote function was
\* invoked once and is not invoked again, and the view is not generating.
\* (The result of a generation started by an earlier mount of the view is
\* stored when it arrives, also while this generation is pending.)
C6_FailureLeavesState ==
    [][lastEvent' = <<"generateResume", FALSE, TRUE>>
          => /\ toast' = FailToast
             /\ error' \in {"Edge Function returned a non-2xx status code", GenericMsg}
             /\ teleprompterText' = genStart.text
             /\ localStorage'[TextKey] = genStart.stored
             /\ invocations' = 1
             /\ BagCardinality(requests') = BagCardinality(requests) - 1
             /\ ~isGenerating']_vars

\* The characters buildPrompt may keep of an input of n characters.
Kept(n, limit) == IF n < limit THEN n ELSE limit

\* C9: the text buildPrompt returns for a job title, a job description and a
\* resume text is the template with the job title verbatim, exactly the first
\* 1500 characters of the job description (all of it when shorter) and exactly
\* the first 2000 characters of the resume text (all of it when shorter) in
\* its three places, and holds no character of either input beyond the limit.
C9_PromptContents ==
    \A req \in BagToSet(requests) :
        LET p == req.prompt
            t == localStorage[JobTitleKey]
            d == localStorage[JobDescriptionKey]
            r == localStorage[ResumeKey]
            nd == Kept(Len(d), 1500)
            nr == Kept(Len(r), 2000)
            atTitle == Len(PromptHead)
            atMid == atTitle + Len(t)
            atDesc == atMid + Len(PromptJobDescription)
            atResumeHead == atDesc + nd
            atResume == atResumeHead + Len(PromptResume)
            atTail == atResume + nr
        IN /\ Len(p) = atTail + Len(PromptTail)
           /\ \A i \in 1..Len(PromptHead) : p[i] = PromptHead[i]
           /\ \A i \in 1..Len(t) : p[atTitle + i] = t[i]
           /\ \A i \in 1..Len(PromptJobDescription) : p[atMid + i] = PromptJobDescription[i]
           /\ \A i \in 1..nd : p[atDesc + i] = d[i]
           /\ \A i \in 1..Len(PromptResume) : p[atResumeHead + i] = PromptResume[i]
           /\ \A i \in 1..nr : p[atResume + i] = r[i]
           /\ \A i \in 1..Len(PromptTail) : p[atTail + i] = PromptTail[i]
           /\ \A i \in 1..Len(p) : p[i] \notin {DescExcessChar, ResumeExcessChar}

\* C9 happens: a prompt was built from a job description and a resume text
\* that are both longer than their limits.
C9_Witness ==
    \E req \in BagToSet(requests) :
        /\ Len(localStorage[JobDescriptionKey]) > 1500
        /\ Len(localStorage[ResumeKey]) > 2000
        /\ localStorage[JobDescriptionKey][1501] = DescExcessChar
        /\ localStorage[ResumeKey][2001] = ResumeExcessChar
        /\ Includes(req.prompt, localStorage[JobTitleKey])

\* The pending generation calls made by the view that is mounted now.
LiveRequests ==
    [r \in {x \in BagToSet(requests) : x.live} |-> CopiesIn(r, requests)]

\* C11: the mounted view has at most one generation call in flight; while
\* isGenerating is true no generateIntroduction is started and the script
\* field is not edited; and the result of a generation does not overwrite an
\* edit made after its call was started: an answer that arrives right after
\* an edit (its call was pending during the edit) changes neither the field
\* nor the stored script.
C11_OneGenerationAtATime ==
    [][/\ BagCardinality(LiveRequests') <= 1
       /\ isGenerating => lastEvent' \notin {<<"generateIntroduction">>, <<"handleTextChange">>}
       /\ (/\ lastEvent = <<"handleTextChange">>
           /\ lastEvent'[1] = "generateResume"
           /\ lastEvent'[2])
             => /\ teleprompterText' = teleprompterText
                /\ localStorage'[TextKey] = localStorage[TextKey]]_vars

\* The text holds the words "Please go back" somewhere.
HoldsPleaseGoBack(text) ==
    LET words == <<"P", "l", "e", "a", "s", "e", " ", "g", "o", " ", "b", "a", "c", "k">>
    IN \E at \in 0..Len(text) :
          /\ at + Len(words) <= Len(text)
          /\ \A j \in 1..Len(words) : text[at + j] = words[j]

\* The value of a decimal digit.
DigitValue(c) ==
    CASE c = "0" -> 0 [] c = "1" -> 1 [] c = "2" -> 2 [] c = "3" -> 3 [] c = "4" -> 4
      [] c = "5" -> 5 [] c = "6" -> 6 [] c = "7" -> 7 [] c = "8" -> 8 [] c = "9" -> 9
      [] OTHER -> -100

\* The speed a stored string "d" or "d.d" stands for, in tenths; negative for
\* any other string.
StoredSpeed(str) ==
    IF str = NullStr THEN -1
    ELSE IF Len(str) = 1 THEN 10 * DigitValue(str[1])
    ELSE IF Len(str) = 3 /\ str[2] = "." THEN 10 * DigitValue(str[1]) + DigitValue(str[3])
    ELSE -1

\* C12: a handleStartRecording that navigates to the recording view had a
\* non-empty script without "Please go back", and leaves the stored script
\* equal to the field's text and the stored speed equal to the selected speed;
\* with an empty script or the placeholder it does not navigate and writes
\* nothing to local storage.
C12_StartRecording ==
    [][lastEvent' = <<"handleStartRecording">>
          => /\ route' \in {Step3Route, RecordingRoute}
             /\ route' = RecordingRoute
                   => /\ teleprompterText # <<>>
                      /\ ~HoldsPleaseGoBack(teleprompterText)
                      /\ localStorage'[TextKey] = teleprompterText
                      /\ StoredSpeed(localStorage'[SpeedKey]) = teleprompterSpeed
             /\ (teleprompterText = <<>> \/ HoldsPleaseGoBack(teleprompterText))
                   => /\ route' = route
                      /\ s3Mounted'
                      /\ localStorage' = localStorage]_vars

\* C12 happens: Start Recording was clicked on an edited script at speed 0.5
\* and the recording view is shown.
C12_Witness ==
    /\ lastEvent = <<"handleStartRecording">>
    /\ route = RecordingRoute
    /\ localStorage[TextKey] = EditedScript
    /\ localStorage[SpeedKey] = <<"0", ".", "5">>

\* C13: the upgrade prompt is not displayed while the premium-active flag is
\* true, so it disappears when a plan update makes the flag true while it is
\* open; and it is displayed only while showPricingPopup is set, which only a
\* blocked handleNewCast (one that does not navigate) sets and which closing
\* the prompt, by its X or by Upgrade Now, clears.
C13_PromptOnlyWhenBlocked ==
    [][/\ PopupShown' => ~Truthy(isPremiumActive')
       /\ (PopupShown /\ mounted' /\ Truthy(isPremiumActive')) => ~PopupShown'
       /\ PopupShown' => showPricingPopup'
       /\ (~showPricingPopup /\ showPricingPopup')
             => /\ lastEvent' = <<"handleNewCast">>
                /\ ~Truthy(isPremiumActive)
                /\ mounted' /\ route' = route
       /\ lastEvent' \in {<<"handleClosePricingPopup">>, <<"upgradeNow">>}
             => ~showPricingPopup']_vars

\* C13 happens: the prompt was opened by a blocked click, then a plan update
\* made the flag true, and the prompt is not displayed.
C13_Witness ==
    /\ mounted
    /\ showPricingPopup
    /\ isPremiumActive = JsTrue
    /\ ~PopupShown
    /\ CompletedRecordings(careerCasts) >= 3

\* A stored string that is there and not empty.
Stored(k) == localStorage[k] # NullStr /\ localStorage[k] # <<>>

\* The mount step shows the stored script and calls nothing.
MountShowsStored ==
    /\ teleprompterText' = localStorage[TextKey]
    /\ requests' = requests
    /\ invocations' = 0
    /\ ~isGenerating'
    /\ error' = JsNull

\* The mount step starts one generation: one more call is pending, and it is
\* the mounted view's only one.
MountStartsOne ==
    /\ BagCardinality(requests') = BagCardinality(requests) + 1
    /\ BagCardinality(LiveRequests') = 1
    /\ invocations' = 1
    /\ isGenerating'
    /\ teleprompterText' = <<>>
    /\ error' = JsNull

\* The mount step starts no generation and shows the Step 1 message and the
\* placeholder.
MountShowsPlaceholder ==
    /\ requests' = requests
    /\ invocations' = 0
    /\ ~isGenerating'
    /\ error' = Step1Msg
    /\ teleprompterText' = Placeholder

\* C14 as stated: on mount, a stored script of more than 10 characters is
\* shown and nothing is invoked; otherwise, with a job title stored, exactly
\* one generation is started; otherwise none is started, the Step 1 message
\* is set and the field shows the placeholder.
C14_MountThreeWays ==
    [][lastEvent'[1] = "step3Mount"
          => IF Stored(TextKey) /\ Len(localStorage[TextKey]) > 10 THEN MountShowsStored
             ELSE IF Stored(JobTitleKey) THEN MountStartsOne
             ELSE MountShowsPlaceholder]_vars

\* C14 as amended: as stated, except that with a job title stored the one
\* run of generateIntroduction starts a generation only when the job
\* description and the resume text are stored too; when one of them is absent
\* or empty it starts none, sets the missing-inputs message, shows the
\* failure notification and leaves the field empty.
C14_MountInitialises ==
    [][lastEvent'[1] = "step3Mount"
          => IF Stored(TextKey) /\ Len(localStorage[TextKey]) > 10 THEN MountShowsStored
             ELSE IF Stored(JobTitleKey)
                  THEN IF Stored(JobDescriptionKey) /\ Stored(ResumeKey)
                       THEN MountStartsOne
                       ELSE /\ requests' = requests
                            /\ invocations' = 0
                            /\ ~isGenerating'
                            /\ error' = MissingMsg
                            /\ toast' = FailToast
                            /\ teleprompterText' = <<>>
             ELSE MountShowsPlaceholder]_vars

\* C14 happens: the view was mounted with a job title but no resume text and
\* a stored script of only 10 characters, and no generation is pending.
C14_Witness ==
    /\ lastEvent = <<"step3Mount", "generate">>
    /\ localStorage[TextKey] = TenChars
    /\ Stored(JobTitleKey) /\ Stored(JobDescriptionKey) /\ ~Stored(ResumeKey)
    /\ requests = EmptyBag
    /\ error = MissingMsg

=============================================================================
